---- MODULE Spec2Model ----
(***************************************************************************)
(* A model of coilsnake/util/common/project.py: the process-wide module    *)
(* registry (ModuleConfig._get_default_modules), the per-project module    *)
(* configuration (ModuleConfig) and the project descriptor (Project).      *)
(***************************************************************************)
EXTENDS Integers, Sequences, FiniteSets, TLC

VARIABLES
    manifest,         \* the lines of the asset modulelist.txt, in file order
    DEFAULT_MODULES,  \* ModuleConfig._DEFAULT_MODULES: None or a list of (name, cls)
    snake,            \* the descriptor file at snake_filename: None or its document
    project,          \* the Project object the caller holds: None or its attributes
    disk,             \* the resource files that exist under the project directory
    dirs,             \* the directories that exist: the project's and those under it
    sys_path,         \* sys.path
    sys_modules,      \* the keys of sys.modules among the project-specific modules
    last,             \* the last call made: operation, arguments, error, result
    threads,          \* per thread, its position inside _get_default_modules
    discoveries       \* how many times the manifest has been opened

vars == <<manifest, DEFAULT_MODULES, snake, project, disk, dirs, sys_path, sys_modules,
          last, threads, discoveries>>

----------------------------------------------------------------------------
(* Bounds of the model *)

\* the longest manifest
MaxManifest == 2
\* the number of concurrent callers of _get_default_modules
MaxThreads == 2
\* the number of calls each concurrent caller makes
MaxCalls == 2
\* the number of calls made on projects in one run
MaxOps == 5

----------------------------------------------------------------------------
(* Optional values: None is the empty tuple, a present value a 1-tuple *)

None == <<>>
Some(x) == <<x>>
Get(o) == o[1]

Range(s) == {s[i] : i \in 1..Len(s)}

SeqsUpTo(S, n) == UNION {[1..k -> S] : k \in 0..n}

\* the subsequence of s whose elements satisfy Keep (a list comprehension)
RECURSIVE SelectNames(_, _)
SelectNames(s, keep) ==
    IF s = <<>> THEN <<>>
    ELSE (IF Head(s) \in keep THEN <<Head(s)>> ELSE <<>>) \o SelectNames(Tail(s), keep)

----------------------------------------------------------------------------
(* Program constants *)

FORMAT_VERSION == 13

ROM_TYPE_NAME_UNKNOWN == "Unknown"

\* The rom types a caller may name
RomTypes == {"X", "Y"}

\* Errors: the exception class and the values its message carries
NoError == [kind |-> "none", args |-> <<>>]
Error(kind, args) == [kind |-> kind, args |-> args]

----------------------------------------------------------------------------
(* The module manifest and the built-in module classes *)

\* the lines a manifest is made of, after the file iterator has split them:
\* two module names, a comment and a blank line
ManifestLines == {"A\n", "B\n", "#c\n", "\n"}

\* line.rstrip('\n')
rstrip(line) ==
    CASE line = "A\n" -> "A"
      [] line = "B\n" -> "B"
      [] line = "#c\n" -> "#c"
      [] line = "\n" -> ""

\* line[0]; the empty string has no first character (IndexError)
HasChar0(line) == line # ""
Char0(line) == IF line = "#c" THEN "#" ELSE line

\* components[-1] of line.split('.'): the names of the model have one component
LastComponent(name) == name

\* cls.is_compatible_with_romtype(romtype) of the class a name resolves to
CompatibleRomtypes(cls) ==
    CASE cls = "A" -> {"X", "Y"}
      [] cls = "B" -> {"X"}
      [] OTHER -> {}

is_compatible_with_romtype(cls, romtype) == romtype \in CompatibleRomtypes(cls)

\* no module is listed twice in the manifest
NoRepeatedName(m) ==
    \A i, j \in 1..Len(m) :
        (i # j /\ m[i] = m[j]) => (m[i] \in {"#c\n", "\n"})

Manifests == {m \in SeqsUpTo(ManifestLines, MaxManifest) : NoRepeatedName(m)}

\* The manifests the runs on projects start from: those of module names alone,
\* one with a comment and one with a blank line
ProjectManifests ==
    {m \in Manifests : Range(m) \subseteq {"A\n", "B\n"}}
    \cup {m \in Manifests : Len(m) = MaxManifest /\ m[1] = "#c\n" /\ m[2] = "A\n"}
    \cup {m \in Manifests : Len(m) = MaxManifest /\ m[1] = "A\n" /\ m[2] = "\n"}

\* The body of the loop of _get_default_modules for one line of the file,
\* all_modules being acc: the error raised, or all_modules afterwards
read_line(raw, acc) ==
    LET line == rstrip(raw) IN
    IF ~HasChar0(line) THEN [err |-> Error("IndexError", <<>>), mods |-> acc]
    ELSE IF Char0(line) = "#" THEN [err |-> NoError, mods |-> acc]
    ELSE [err |-> NoError, mods |-> Append(acc, <<line, LastComponent(line)>>)]

\* The loop over the lines from index i on: the error raised or the completed list
RECURSIVE DiscoverFrom(_, _, _)
DiscoverFrom(lines, i, acc) ==
    IF i > Len(lines) THEN [err |-> NoError, mods |-> acc]
    ELSE LET step == read_line(lines[i], acc) IN
         IF step.err # NoError THEN step
         ELSE DiscoverFrom(lines, i + 1, step.mods)

Discover(lines) == DiscoverFrom(lines, 1, <<>>)

\* `not cls._DEFAULT_MODULES`: None and the empty list are both falsy
IsFalsy(cache) == cache = None \/ Get(cache) = <<>>

\* ModuleConfig._get_default_modules run by one caller without interleaving:
\* the error raised, the list returned and the cache afterwards
get_default_modules(lines, cache) ==
    IF IsFalsy(cache)
    THEN LET d == Discover(lines) IN
         IF d.err # NoError THEN [err |-> d.err, mods |-> <<>>, cache |-> cache]
         ELSE [err |-> NoError, mods |-> d.mods, cache |-> Some(d.mods)]
    ELSE [err |-> NoError, mods |-> Get(cache), cache |-> cache]

----------------------------------------------------------------------------
(* ModuleConfig *)

\* a variant that takes every class for compatible
class_is_compatible_always(romtype, cls) == TRUE

\* class_is_compatible
class_is_compatible(romtype, cls) == is_compatible_with_romtype(cls, romtype)

\* filter_to_compatible: the (name, cls) pairs of mods whose class is compatible
RECURSIVE filter_to_compatible(_, _)
filter_to_compatible(romtype, mods) ==
    IF mods = <<>> THEN <<>>
    ELSE (IF class_is_compatible(romtype, Head(mods)[2]) THEN <<Head(mods)>> ELSE <<>>)
         \o filter_to_compatible(romtype, Tail(mods))

Names(mods) == [i \in 1..Len(mods) |-> mods[i][1]]

\* a variant that takes every registry name, compatible or not
get_compatible_default_module_names_all(romtype, mods) == Names(mods)

\* get_compatible_default_module_names, given the registry
get_compatible_default_module_names(romtype, mods) ==
    Names(filter_to_compatible(romtype, mods))

\* ModuleConfig.__init__: moduleconfig_dict is None or the stored block, which
\* is adopted as it is; without it the configuration is derived from the registry
ModuleConfig_init(romtype, moduleconfig_dict, lines, cache) ==
    IF moduleconfig_dict # None
    THEN [err |-> NoError, cache |-> cache,
          cfg |-> [romtype |-> romtype,
                   enabled |-> Get(moduleconfig_dict).enabled,
                   disabled |-> Get(moduleconfig_dict).disabled,
                   project_specific |-> Get(moduleconfig_dict).project_specific]]
    ELSE LET g == get_default_modules(lines, cache) IN
         [err |-> g.err, cache |-> g.cache,
          cfg |-> [romtype |-> romtype,
                   enabled |-> get_compatible_default_module_names(romtype, g.mods),
                   disabled |-> <<>>,
                   project_specific |-> <<>>]]

\* a variant that writes the enabled names under the disabled label and back
to_dict_swapped(cfg) ==
    [enabled |-> cfg.disabled, disabled |-> cfg.enabled,
     project_specific |-> cfg.project_specific]

\* ModuleConfig.to_dict
to_dict(cfg) ==
    [enabled |-> cfg.enabled, disabled |-> cfg.disabled,
     project_specific |-> cfg.project_specific]

\* a variant that does not look at what is present
\* a variant that finds the missing names in the reverse of the registry order
MissingNames_reversed(cfg, mods) ==
    LET present == Range(cfg.enabled) \cup Range(cfg.disabled)
        compatible == get_compatible_default_module_names(cfg.romtype, mods)
        missing == SelectNames(compatible, Range(compatible) \ present)
    IN  [i \in 1..Len(missing) |-> missing[Len(missing) + 1 - i]]

MissingNames_enabledonly(cfg, mods) ==
    LET compatible == get_compatible_default_module_names(cfg.romtype, mods)
    IN  SelectNames(compatible, Range(compatible) \ Range(cfg.enabled))

MissingNames_all(cfg, mods) == get_compatible_default_module_names(cfg.romtype, mods)

\* the names add_missing_defaults finds missing: the compatible registry names
\* that are in neither list, in registry order
MissingNames(cfg, mods) ==
    LET present == Range(cfg.enabled) \cup Range(cfg.disabled)
        compatible == get_compatible_default_module_names(cfg.romtype, mods)
    IN  SelectNames(compatible, Range(compatible) \ present)

\* a variant that appends to the list the flag does not name
add_missing_defaults_otherlist(cfg, enabled, lines, cache) ==
    LET g == get_default_modules(lines, cache)
        missing == MissingNames(cfg, g.mods)
    IN  IF g.err # NoError THEN [err |-> g.err, cache |-> g.cache, cfg |-> cfg, missing |-> <<>>]
        ELSE [err |-> NoError, cache |-> g.cache, missing |-> missing,
              cfg |-> IF enabled
                      THEN [cfg EXCEPT !.disabled = @ \o missing]
                      ELSE [cfg EXCEPT !.enabled = @ \o missing]]

\* ModuleConfig.add_missing_defaults(enabled)
add_missing_defaults(cfg, enabled, lines, cache) ==
    LET g == get_default_modules(lines, cache)
        missing == MissingNames(cfg, g.mods)
    IN  IF g.err # NoError THEN [err |-> g.err, cache |-> g.cache, cfg |-> cfg, missing |-> <<>>]
        ELSE [err |-> NoError, cache |-> g.cache, missing |-> missing,
              cfg |-> IF enabled
                      THEN [cfg EXCEPT !.enabled = @ \o missing]
                      ELSE [cfg EXCEPT !.disabled = @ \o missing]]

----------------------------------------------------------------------------
(* Project-specific modules *)

ProjectDir == "proj"

\* os.path.join
path_join(a, b) == a \o "/" \o b

CustomModulesDir == path_join(ProjectDir, "CustomModules")

\* What the CustomModules directory holds for an identifier: a module with the
\* class the identifier names ("ok"), a module without it ("noclass"), a module
\* whose import raises ("raises"), or nothing ("missing")
CustomModuleKind(name) ==
    CASE name = "P" -> "ok"
      [] name = "R" -> "ok"
      [] name = "Q" -> "noclass"
      [] name = "E" -> "raises"
      [] OTHER -> "missing"

\* TempSysPathContext.__enter__: the path is stored and the directory put first
TempSysPathContext_enter(path, added_dir) ==
    [stored_path |-> path, sys_path |-> <<added_dir>> \o path]

\* a variant that leaves the path as the context made it
TempSysPathContext_exit_keep(ctx) == ctx.sys_path

\* TempSysPathContext.__exit__: the stored path is put back
TempSysPathContext_exit(ctx) == ctx.stored_path

\* importlib.util.find_spec under a search path
find_spec(name, path) ==
    CustomModulesDir \in Range(path) /\ CustomModuleKind(name) # "missing"

\* ModuleConfig.load_project_specific_module
load_project_specific_module(name, path, modules) ==
    LET ctx == TempSysPathContext_enter(path, CustomModulesDir)
        found == find_spec(name, ctx.sys_path)
        raises == found /\ CustomModuleKind(name) = "raises"
        after == IF name \in modules THEN path ELSE TempSysPathContext_exit(ctx)
        loaded == IF name \in modules \/ (found /\ ~raises)
                  THEN modules \cup {name} ELSE modules
        cls_name == LastComponent(name)
    IN  IF name \notin modules /\ raises
        THEN [err |-> Error("ImportError", <<name>>), cls |-> None,
              sys_path |-> after, sys_modules |-> loaded]
        ELSE IF name \notin loaded
        THEN [err |-> Error("ValueError", <<"Cannot locate module", name>>), cls |-> None,
              sys_path |-> after, sys_modules |-> loaded]
        ELSE IF CustomModuleKind(name) = "noclass"
        THEN [err |-> Error("ValueError", <<"must have a class named", name, cls_name>>),
              cls |-> None, sys_path |-> after, sys_modules |-> loaded]
        ELSE [err |-> NoError, cls |-> Some(cls_name),
              sys_path |-> after, sys_modules |-> loaded]

\* the second loop of get_project_modules, over the project-specific names
RECURSIVE LoadProjectSpecific(_, _, _, _)
LoadProjectSpecific(names, acc, path, modules) ==
    IF names = <<>>
    THEN [err |-> NoError, mods |-> acc, sys_path |-> path, sys_modules |-> modules]
    ELSE LET l == load_project_specific_module(Head(names), path, modules) IN
         IF l.err # NoError
         THEN [err |-> l.err, mods |-> <<>>, sys_path |-> l.sys_path,
               sys_modules |-> l.sys_modules]
         ELSE LoadProjectSpecific(Tail(names), Append(acc, <<Head(names), Get(l.cls)>>),
                                  l.sys_path, l.sys_modules)

\* a variant that takes every enabled name of the registry, compatible or not
EnabledCompatible_nocheck(cfg, mods) ==
    LET Test(e) == e[1] \in Range(cfg.enabled) IN SelectSeq(mods, Test)

\* the first loop of get_project_modules: the registry entries whose name is
\* enabled and whose class is compatible, in registry order
RECURSIVE EnabledCompatible(_, _)
EnabledCompatible(cfg, mods) ==
    IF mods = <<>> THEN <<>>
    ELSE (IF Head(mods)[1] \in Range(cfg.enabled)
             /\ class_is_compatible(cfg.romtype, Head(mods)[2])
          THEN <<Head(mods)>> ELSE <<>>)
         \o EnabledCompatible(cfg, Tail(mods))

\* ModuleConfig.get_project_modules
get_project_modules(cfg, lines, cache, path, modules) ==
    LET g == get_default_modules(lines, cache) IN
    IF g.err # NoError
    THEN [err |-> g.err, mods |-> <<>>, cache |-> g.cache,
          sys_path |-> path, sys_modules |-> modules]
    ELSE LET l == LoadProjectSpecific(cfg.project_specific, EnabledCompatible(cfg, g.mods),
                                      path, modules) IN
         [err |-> l.err, mods |-> l.mods, cache |-> g.cache,
          sys_path |-> l.sys_path, sys_modules |-> l.sys_modules]

\* a variant whose first assertion is dropped
ModuleConfig_upgrade_unchecked(cfg, old_version, new_version, lines, cache) ==
    IF old_version < 13
    THEN IF cfg.disabled # <<>> \/ cfg.project_specific # <<>>
         THEN [err |-> Error("AssertionError", <<>>), cache |-> cache]
         ELSE [err |-> NoError, cache |-> cache]
    ELSE [err |-> Error("NotImplementedError", <<old_version>>), cache |-> cache]

\* ModuleConfig.upgrade: the three assertions below version 13, and
\* NotImplementedError, whose message carries old_version, from 13 on
ModuleConfig_upgrade(cfg, old_version, new_version, lines, cache) ==
    IF old_version < 13
    THEN LET g == get_default_modules(lines, cache) IN
         IF g.err # NoError THEN [err |-> g.err, cache |-> g.cache]
         ELSE IF cfg.enabled # get_compatible_default_module_names(cfg.romtype, g.mods)
         THEN [err |-> Error("AssertionError", <<>>), cache |-> g.cache]
         ELSE IF cfg.disabled # <<>>
         THEN [err |-> Error("AssertionError", <<>>), cache |-> g.cache]
         ELSE IF cfg.project_specific # <<>>
         THEN [err |-> Error("AssertionError", <<>>), cache |-> g.cache]
         ELSE [err |-> NoError, cache |-> g.cache]
    ELSE [err |-> Error("NotImplementedError", <<old_version>>), cache |-> cache]

----------------------------------------------------------------------------
(* Project *)

\* dictionaries are functions; d[k] = v, del d[k]
EmptyDict == <<>>
DictSet(d, k, v) == [x \in DOMAIN d \cup {k} |-> IF x = k THEN v ELSE d[x]]
DictDel(d, k) == [x \in DOMAIN d \ {k} |-> d[x]]

\* a variant that adopts the stored block whatever type was asked for
loaded_moduleconfig_dict_any(doc, matches) ==
    IF doc # None THEN Get(doc).moduleconfig ELSE None

\* data.get(ModuleConfig.LABEL, None), left at None on the other branches
loaded_moduleconfig_dict(doc, matches) ==
    IF matches THEN Get(doc).moduleconfig ELSE None

\* data["resources"], None read as {}, and {} on the other branches
loaded_resources(doc, matches) ==
    IF matches /\ Get(doc).resources # None THEN Get(Get(doc).resources) ELSE EmptyDict

\* Project.__init__(snake_filename, romtype): doc is None when the descriptor
\* file does not exist (IOError) and the decoded document otherwise; romtype is
\* None when the caller names no type.
Project_init(doc, romtype, lines, cache) ==
    LET matches == doc # None /\ (romtype = None \/ Get(romtype) = Get(doc).romtype)
        creating == doc = None
        refused == creating /\ (romtype = None \/ Get(romtype) = ROM_TYPE_NAME_UNKNOWN)
        self_romtype == IF matches THEN Get(doc).romtype ELSE Get(romtype)
        resources == loaded_resources(doc, matches)
        version == IF matches
                   THEN Some(IF Get(doc).version = None THEN 1 ELSE Get(Get(doc).version))
                   ELSE None
        moduleconfig_dict == loaded_moduleconfig_dict(doc, matches)
        \* which branch of the constructor made the object (kept for the properties)
        origin == IF creating THEN "created"
                  ELSE IF ~matches THEN "mismatched"
                  ELSE IF Get(doc).moduleconfig = None THEN "decoded_without_config"
                  ELSE "decoded_with_config"
        mc == ModuleConfig_init(self_romtype, moduleconfig_dict, lines, cache)
    IN  IF refused
        THEN [err |-> Error("AssertionError", <<"Can't make new project of unknown type!">>),
              project |-> None, cache |-> cache, makedirs |-> FALSE]
        ELSE IF mc.err # NoError
        THEN [err |-> mc.err, project |-> None, cache |-> mc.cache, makedirs |-> creating]
        ELSE [err |-> NoError, cache |-> mc.cache, makedirs |-> creating,
              project |-> Some([romtype |-> self_romtype, resources |-> resources,
                                version |-> version, moduleconfig |-> mc.cfg,
                                origin |-> origin])]

\* Project.save: the document the two yml_dump calls leave in the file
Project_save_keepversion(p) ==
    [romtype |-> p.romtype,
     version |-> p.version,
     moduleconfig |-> Some(to_dict(p.moduleconfig)),
     resources |-> Some(p.resources)]

Project_save(p) ==
    [romtype |-> p.romtype,
     version |-> Some(FORMAT_VERSION),
     moduleconfig |-> Some(to_dict(p.moduleconfig)),
     resources |-> Some(p.resources)]

\* a variant that assigns the default path whether or not the pair is registered
Register_overwrite(resources, module_name, resource_name, extension) ==
    LET withmod == IF module_name \notin DOMAIN resources
                   THEN DictSet(resources, module_name, EmptyDict) ELSE resources
    IN  DictSet(withmod, module_name,
                DictSet(withmod[module_name], resource_name,
                        resource_name \o "." \o extension))

\* the registration of get_resource: the two `not in` tests and assignments
Register(resources, module_name, resource_name, extension) ==
    LET withmod == IF module_name \notin DOMAIN resources
                   THEN DictSet(resources, module_name, EmptyDict) ELSE resources
    IN  IF resource_name \notin DOMAIN withmod[module_name]
        THEN DictSet(withmod, module_name,
                     DictSet(withmod[module_name], resource_name,
                             resource_name \o "." \o extension))
        ELSE withmod

\* os.path.dirname of the paths of the model
dirname(fname) ==
    IF fname = path_join(ProjectDir, "old/r.bin") THEN path_join(ProjectDir, "old")
    ELSE ProjectDir

\* open(fname, mode): "r" and "r+" need the file, "w" creates it
OpenFails(fname, mode, files) == mode \in {"r", "r+"} /\ fname \notin files

\* Project.get_resource
\* a variant that registers the resource only when the file could be opened
Project_get_resource_ifopened(p, module_name, resource_name, extension, mode, files, folders) ==
    LET resources == Register(p.resources, module_name, resource_name, extension)
        fname == path_join(ProjectDir, resources[module_name][resource_name])
        fails == OpenFails(fname, mode, files)
    IN  [project |-> IF fails THEN p ELSE [p EXCEPT !.resources = resources],
         fname |-> fname,
         dirs |-> IF dirname(fname) \notin folders
                  THEN folders \cup {dirname(fname)} ELSE folders,
         err |-> IF fails THEN Error("FileNotFoundError", <<fname>>) ELSE NoError,
         disk |-> IF mode = "w" THEN files \cup {fname} ELSE files]

Project_get_resource(p, module_name, resource_name, extension, mode, files, folders) ==
    LET resources == Register(p.resources, module_name, resource_name, extension)
        fname == path_join(ProjectDir, resources[module_name][resource_name])
    IN  [project |-> [p EXCEPT !.resources = resources],
         fname |-> fname,
         dirs |-> IF dirname(fname) \notin folders
                  THEN folders \cup {dirname(fname)} ELSE folders,
         err |-> IF OpenFails(fname, mode, files)
                 THEN Error("FileNotFoundError", <<fname>>) ELSE NoError,
         disk |-> IF mode = "w" THEN files \cup {fname} ELSE files]

\* a variant that returns quietly when the resource is not registered
Project_delete_resource_quiet(p, module_name, resource_name, files) ==
    IF module_name \notin DOMAIN p.resources
    THEN [err |-> Error("CoilSnakeError", <<"No such module", module_name>>),
          project |-> p, disk |-> files, fname |-> None]
    ELSE IF resource_name \notin DOMAIN p.resources[module_name]
    THEN [err |-> NoError, project |-> p, disk |-> files, fname |-> None]
    ELSE LET fname == path_join(ProjectDir, p.resources[module_name][resource_name]) IN
         [err |-> NoError, fname |-> Some(fname),
          disk |-> files \ {fname},
          project |-> [p EXCEPT !.resources =
                          DictSet(@, module_name, DictDel(@[module_name], resource_name))]]

\* a variant that forgets the entry only when it removed the file
Project_delete_resource_iffile(p, module_name, resource_name, files) ==
    IF module_name \notin DOMAIN p.resources
    THEN [err |-> Error("CoilSnakeError", <<"No such module", module_name>>),
          project |-> p, disk |-> files, fname |-> None]
    ELSE IF resource_name \notin DOMAIN p.resources[module_name]
    THEN [err |-> Error("CoilSnakeError", <<"No such resource", resource_name, module_name>>),
          project |-> p, disk |-> files, fname |-> None]
    ELSE LET fname == path_join(ProjectDir, p.resources[module_name][resource_name]) IN
         [err |-> NoError, fname |-> Some(fname),
          disk |-> files \ {fname},
          project |-> IF fname \in files
                      THEN [p EXCEPT !.resources =
                               DictSet(@, module_name, DictDel(@[module_name], resource_name))]
                      ELSE p]

\* Project.delete_resource
Project_delete_resource(p, module_name, resource_name, files) ==
    IF module_name \notin DOMAIN p.resources
    THEN [err |-> Error("CoilSnakeError", <<"No such module", module_name>>),
          project |-> p, disk |-> files, fname |-> None]
    ELSE IF resource_name \notin DOMAIN p.resources[module_name]
    THEN [err |-> Error("CoilSnakeError", <<"No such resource", resource_name, module_name>>),
          project |-> p, disk |-> files, fname |-> None]
    ELSE LET fname == path_join(ProjectDir, p.resources[module_name][resource_name]) IN
         [err |-> NoError, fname |-> Some(fname),
          disk |-> files \ {fname},
          project |-> [p EXCEPT !.resources =
                          DictSet(@, module_name, DictDel(@[module_name], resource_name))]]

\* a variant that sets the version whatever ModuleConfig.upgrade does
Project_upgrade_always(p, old_version, new_version, lines, cache) ==
    LET u == ModuleConfig_upgrade(p.moduleconfig, old_version, new_version, lines, cache) IN
    [err |-> NoError, cache |-> u.cache, project |-> [p EXCEPT !.version = Some(new_version)]]

\* Project.upgrade: the version is set only when ModuleConfig.upgrade returns
Project_upgrade(p, old_version, new_version, lines, cache) ==
    LET u == ModuleConfig_upgrade(p.moduleconfig, old_version, new_version, lines, cache) IN
    [err |-> u.err, cache |-> u.cache,
     project |-> IF u.err = NoError THEN [p EXCEPT !.version = Some(new_version)] ELSE p]

----------------------------------------------------------------------------
(* The inputs of the calls *)

ResModules == {"m"}
ResNames == {"r"}
Extensions == {"dat", "yml"}
Modes == {"r", "w"}
RequestedRomtypes == {None} \cup {Some(t) : t \in RomTypes \cup {ROM_TYPE_NAME_UNKNOWN}}
OldVersions == {12, 13, 14}
NewVersions == {13, 14}

\* a resource registered under a path of its own by an earlier version
OldResources == [m |-> [r |-> "old/r.bin"]]

StoredConfig(enabled, disabled, project_specific) ==
    Some([enabled |-> enabled, disabled |-> disabled,
          project_specific |-> project_specific])

Document(romtype, version, moduleconfig, resources) ==
    Some([romtype |-> romtype, version |-> version, moduleconfig |-> moduleconfig,
          resources |-> resources])

\* The descriptor files a run starts from: none; files written before the
\* module configuration block existed; files of the current version whose
\* lists the user has edited
InitialFiles ==
    { None,
      Document("X", None, None, Some(OldResources)),
      Document("Y", Some(12), None, None),
      Document("X", Some(13), StoredConfig(<<>>, <<"A">>, <<>>), Some(EmptyDict)),
      Document("X", Some(13), StoredConfig(<<"B", "A">>, <<>>, <<"P", "E">>), Some(OldResources)),
      Document("Y", Some(13), StoredConfig(<<"B", "A", "Z">>, <<>>, <<"P">>), None),
      Document("Y", Some(13), StoredConfig(<<"A">>, <<"A">>, <<"Q">>), Some(EmptyDict)),
      Document("X", Some(13), StoredConfig(<<"A">>, <<"B">>, <<"N">>), Some(EmptyDict)),
      Document("X", Some(13), StoredConfig(<<"B", "A">>, <<>>, <<"R", "P">>), Some(EmptyDict)),
      Document("X", Some(13), StoredConfig(<<>>, <<>>, <<>>), Some(EmptyDict)) }

\* How a call relates to the call before it, for the properties that speak of
\* two calls in a row: the kind of pair, and what the earlier call returned (for
\* a constructor, what it was given) with the project as it was between the two
NoRel == [kind |-> "", was |-> None]
Rel(kind) ==
    [kind |-> kind,
     was |-> Some([ret |-> IF last.op = "open" THEN last.args ELSE last.ret,
                   project |-> project])]
Call(op, args, err, ret, rel) ==
    [op |-> op, args |-> args, err |-> err, ret |-> ret, rel |-> rel, n |-> last.n + 1]

IdleThread == [pc |-> "idle", i |-> 0, all_modules |-> <<>>, calls |-> 0,
               err |-> NoError, ret |-> None]
Threads == 1..MaxThreads

Init ==
    /\ manifest \in ProjectManifests
    /\ DEFAULT_MODULES = None
    /\ snake \in InitialFiles
    /\ project = None
    /\ disk \in IF snake # None /\ Get(snake).resources = Some(OldResources)
               THEN SUBSET {path_join(ProjectDir, "old/r.bin")} ELSE {{}}
    /\ dirs \in IF snake = None THEN SUBSET {ProjectDir}
               ELSE {{ProjectDir} \cup {dirname(f) : f \in disk}}
    /\ sys_path = <<"site-packages">>
    /\ sys_modules = {}
    /\ last = [op |-> "start", args |-> <<>>, err |-> NoError, ret |-> None,
               rel |-> NoRel, n |-> 0]
    /\ threads = [t \in Threads |-> IdleThread]
    /\ discoveries = 0

----------------------------------------------------------------------------
(* The calls on a project, each run to completion *)

\* a run makes at most MaxOps calls
CanCall == last.n < MaxOps

\* Project(snake_filename, romtype): the caller holds the new object when the
\* constructor returns, and keeps what it held when the constructor raises
Open(romtype) ==
    LET o == Project_init(snake, romtype, manifest, DEFAULT_MODULES) IN
    /\ CanCall
    /\ project' = IF o.err = NoError THEN o.project ELSE project
    /\ DEFAULT_MODULES' = o.cache
    /\ dirs' = IF o.makedirs THEN dirs \cup {ProjectDir} ELSE dirs
    /\ last' = Call("open", <<romtype>>, o.err, None,
                    IF last.op = "save" THEN Rel("after_save") ELSE NoRel)
    /\ UNCHANGED <<manifest, snake, disk, sys_path, sys_modules, threads, discoveries>>

\* Project.save
Save ==
    /\ CanCall
    /\ project # None
    /\ snake' = Some(Project_save(Get(project)))
    /\ last' = Call("save", <<>>, NoError, None, NoRel)
    /\ UNCHANGED <<manifest, DEFAULT_MODULES, project, disk, dirs, sys_path, sys_modules,
                   threads, discoveries>>

GetResource(module_name, resource_name, extension, mode) ==
    /\ CanCall
    /\ project # None
    /\ LET g == Project_get_resource(Get(project), module_name, resource_name,
                                     extension, mode, disk, dirs)
           same == Len(last.args) >= 2 /\ last.args[1] = module_name
                   /\ last.args[2] = resource_name
       IN  /\ project' = Some(g.project)
           /\ disk' = g.disk
           /\ dirs' = g.dirs
           /\ last' = Call("get_resource", <<module_name, resource_name, extension, mode>>,
                           g.err, Some(g.fname),
                           IF last.op = "get_resource" /\ same
                           THEN Rel("repeat")
                           ELSE IF last.op = "delete_resource" /\ same /\ last.err = NoError
                           THEN Rel("after_delete")
                           ELSE NoRel)
    /\ UNCHANGED <<manifest, DEFAULT_MODULES, snake, sys_path, sys_modules, threads,
                   discoveries>>

DeleteResource(module_name, resource_name) ==
    /\ CanCall
    /\ project # None
    /\ LET d == Project_delete_resource(Get(project), module_name, resource_name, disk) IN
       /\ project' = Some(d.project)
       /\ disk' = d.disk
       /\ last' = Call("delete_resource", <<module_name, resource_name>>, d.err,
                       d.fname, NoRel)
    /\ UNCHANGED <<manifest, DEFAULT_MODULES, snake, dirs, sys_path, sys_modules, threads,
                   discoveries>>

AddMissingDefaults(enabled) ==
    /\ CanCall
    /\ project # None
    /\ LET a == add_missing_defaults(Get(project).moduleconfig, enabled, manifest,
                                     DEFAULT_MODULES) IN
       /\ project' = Some([Get(project) EXCEPT !.moduleconfig = a.cfg])
       /\ DEFAULT_MODULES' = a.cache
       /\ last' = Call("add_missing_defaults", <<enabled>>, a.err, Some(a.missing),
                       IF last.op = "add_missing_defaults" /\ last.args = <<enabled>>
                          /\ last.err = NoError
                       THEN Rel("repeat") ELSE NoRel)
    /\ UNCHANGED <<manifest, snake, disk, dirs, sys_path, sys_modules, threads, discoveries>>

LoadModules ==
    /\ CanCall
    /\ project # None
    /\ LET l == get_project_modules(Get(project).moduleconfig, manifest, DEFAULT_MODULES,
                                    sys_path, sys_modules) IN
       /\ DEFAULT_MODULES' = l.cache
       /\ sys_path' = l.sys_path
       /\ sys_modules' = l.sys_modules
       /\ last' = Call("load_modules", <<>>, l.err, Some(l.mods),
                       IF last.op = "open" /\ last.err = NoError
                       THEN Rel("after_open") ELSE NoRel)
    /\ UNCHANGED <<manifest, snake, project, disk, dirs, threads, discoveries>>

Upgrade(old_version, new_version) ==
    /\ CanCall
    /\ project # None
    /\ LET u == Project_upgrade(Get(project), old_version, new_version, manifest,
                                DEFAULT_MODULES) IN
       /\ project' = Some(u.project)
       /\ DEFAULT_MODULES' = u.cache
       /\ last' = Call("upgrade", <<old_version, new_version>>, u.err, None,
                       IF last.op = "add_missing_defaults" THEN Rel("after_add") ELSE NoRel)
    /\ UNCHANGED <<manifest, snake, disk, dirs, sys_path, sys_modules, threads, discoveries>>

Next ==
    \/ \E romtype \in RequestedRomtypes : Open(romtype)
    \/ Save
    \/ \E m \in ResModules, r \in ResNames, e \in Extensions, mode \in Modes :
           GetResource(m, r, e, mode)
    \/ \E m \in ResModules, r \in ResNames : DeleteResource(m, r)
    \/ \E enabled \in BOOLEAN : AddMissingDefaults(enabled)
    \/ LoadModules
    \/ \E old \in OldVersions, new \in NewVersions : Upgrade(old, new)

Spec == Init /\ [][Next]_vars

----------------------------------------------------------------------------
(* Concurrent callers of ModuleConfig._get_default_modules, one statement at a
   time: the method takes no lock *)

InitThreads ==
    /\ manifest \in Manifests
    /\ DEFAULT_MODULES = None
    /\ snake = None
    /\ project = None
    /\ disk = {}
    /\ dirs = {}
    /\ sys_path = <<"site-packages">>
    /\ sys_modules = {}
    /\ last = [op |-> "start", args |-> <<>>, err |-> NoError, ret |-> None,
               rel |-> NoRel, n |-> 0]
    /\ threads = [t \in Threads |-> IdleThread]
    /\ discoveries = 0

UnchangedProject == UNCHANGED <<manifest, snake, project, disk, dirs, sys_path, sys_modules, last>>

\* a thread calls _get_default_modules
ThreadCall(t) ==
    /\ threads[t].pc = "idle"
    /\ threads[t].calls < MaxCalls
    /\ threads' = [threads EXCEPT ![t].pc = "check", ![t].ret = None, ![t].err = NoError]
    /\ UNCHANGED <<DEFAULT_MODULES, discoveries>>
    /\ UnchangedProject

\* if not cls._DEFAULT_MODULES: all_modules = []
ThreadCheck(t) ==
    /\ threads[t].pc = "check"
    /\ threads' = [threads EXCEPT ![t].pc = IF IsFalsy(DEFAULT_MODULES) THEN "open" ELSE "return",
                                  ![t].all_modules = <<>>]
    /\ UNCHANGED <<DEFAULT_MODULES, discoveries>>
    /\ UnchangedProject

\* with open_asset("modulelist.txt") as f
ThreadOpenAsset(t) ==
    /\ threads[t].pc = "open"
    /\ threads' = [threads EXCEPT ![t].pc = "loop", ![t].i = 1]
    /\ discoveries' = discoveries + 1
    /\ UNCHANGED DEFAULT_MODULES
    /\ UnchangedProject

\* one iteration of for line in f
ThreadReadLine(t) ==
    /\ threads[t].pc = "loop"
    /\ threads[t].i <= Len(manifest)
    /\ LET step == read_line(manifest[threads[t].i], threads[t].all_modules) IN
       threads' = IF step.err # NoError
                  THEN [threads EXCEPT ![t].pc = "idle", ![t].err = step.err,
                                       ![t].calls = @ + 1, ![t].i = 0,
                                       ![t].all_modules = <<>>]
                  ELSE [threads EXCEPT ![t].i = @ + 1, ![t].all_modules = step.mods]
    /\ UNCHANGED <<DEFAULT_MODULES, discoveries>>
    /\ UnchangedProject

\* cls._DEFAULT_MODULES = all_modules
ThreadAssign(t) ==
    /\ threads[t].pc = "loop"
    /\ threads[t].i > Len(manifest)
    /\ DEFAULT_MODULES' = Some(threads[t].all_modules)
    /\ threads' = [threads EXCEPT ![t].pc = "return", ![t].i = 0, ![t].all_modules = <<>>]
    /\ UNCHANGED discoveries
    /\ UnchangedProject

\* return cls._DEFAULT_MODULES
ThreadReturn(t) ==
    /\ threads[t].pc = "return"
    /\ threads' = [threads EXCEPT ![t].pc = "idle", ![t].ret = DEFAULT_MODULES,
                                  ![t].calls = @ + 1]
    /\ UNCHANGED <<DEFAULT_MODULES, discoveries>>
    /\ UnchangedProject

NextThreads ==
    \/ \E t \in Threads : ThreadCall(t)
    \/ \E t \in Threads : ThreadCheck(t)
    \/ \E t \in Threads : ThreadOpenAsset(t)
    \/ \E t \in Threads : ThreadReadLine(t)
    \/ \E t \in Threads : ThreadAssign(t)
    \/ \E t \in Threads : ThreadReturn(t)

SpecThreads == InitThreads /\ [][NextThreads]_vars

----------------------------------------------------------------------------
(* Properties *)

\* the registry entries compatible with a rom type, in registry order
CompatibleEntries(romtype, registry) ==
    LET Test(e) == romtype \in CompatibleRomtypes(e[2]) IN SelectSeq(registry, Test)

NoDuplicates(s) == \A i, j \in 1..Len(s) : s[i] = s[j] => i = j

\* the constructor given romtype finds no stored configuration to adopt: there
\* is no descriptor file, or it has no module configuration block, or it is of
\* another type than the one asked for
FreshFor(romtype) ==
    \/ snake = None
    \/ Get(snake).moduleconfig = None
    \/ romtype # None /\ Get(romtype) # Get(snake).romtype

\* the freshly derived configuration of a rom type under a registry
IsDefaultConfig(cfg, registry) ==
    /\ cfg.enabled = Names(CompatibleEntries(cfg.romtype, registry))
    /\ cfg.disabled = <<>>
    /\ cfg.project_specific = <<>>

\* load_modules was called right after a constructor that derived the configuration
LoadedAfterFreshOpen ==
    /\ last.op = "load_modules"
    /\ last.rel.kind = "after_open"
    /\ FreshFor(Get(last.rel.was).ret[1])

\* C1: load_modules on a freshly constructed configuration returns exactly the
\* registry entries compatible with the project's rom type, in registry order,
\* each once.
C1_FreshLoadModules ==
    LoadedAfterFreshOpen =>
        /\ last.err = NoError
        /\ DEFAULT_MODULES # None
        /\ Get(last.ret) = CompatibleEntries(Get(project).romtype, Get(DEFAULT_MODULES))
        /\ NoDuplicates(Get(last.ret))

C1_Witness ==
    /\ LoadedAfterFreshOpen
    /\ last.err = NoError
    /\ Len(Get(DEFAULT_MODULES)) = 2
    /\ Len(Get(last.ret)) = 1

\* add_missing_defaults was called twice in a row with the same flag
AddedTwice ==
    /\ last.op = "add_missing_defaults"
    /\ last.rel.kind = "repeat"

\* C2: a second add_missing_defaults with the same flag leaves enabled, disabled
\* and project_specific as the first call left them.
C2_AddMissingIdempotent ==
    AddedTwice =>
        /\ last.err = NoError
        /\ Get(project).moduleconfig = Get(Get(last.rel.was).project).moduleconfig

C2_Witness ==
    /\ AddedTwice
    /\ Get(Get(last.rel.was).ret) # <<>>
    /\ Get(project).moduleconfig.disabled # <<>>

\* the descriptor was opened right after it was saved, with the type unspecified
\* or the type of the project saved
OpenedAfterSave ==
    /\ last.op = "open"
    /\ last.rel.kind = "after_save"
    /\ \/ last.args[1] = None
       \/ Get(last.args[1]) = Get(Get(last.rel.was).project).romtype

\* C3: Save followed by Open gives a project with the module configuration and
\* the resource registry of the project saved, and the current format version.
C3_SaveOpenRoundTrip ==
    OpenedAfterSave =>
        LET saved == Get(Get(last.rel.was).project) IN
        /\ last.err = NoError
        /\ Get(project).moduleconfig.enabled = saved.moduleconfig.enabled
        /\ Get(project).moduleconfig.disabled = saved.moduleconfig.disabled
        /\ Get(project).moduleconfig.project_specific = saved.moduleconfig.project_specific
        /\ Get(project).resources = saved.resources
        /\ Get(project).version = Some(FORMAT_VERSION)

C3_Witness ==
    /\ OpenedAfterSave
    /\ last.err = NoError
    /\ Get(Get(last.rel.was).project).version # Some(FORMAT_VERSION)
    /\ Get(project).resources # EmptyDict
    /\ Get(project).moduleconfig.enabled # <<>>

\* an existing descriptor was opened under another type than the one it stores
OpenedMismatched ==
    /\ last.op = "open"
    /\ last.err = NoError
    /\ snake # None
    /\ last.args[1] # None
    /\ Get(last.args[1]) # Get(snake).romtype

\* C4: opening an existing descriptor under another type gives a project of the
\* requested type with no resources and the freshly derived configuration.
C4_MismatchedOpenIsFresh ==
    OpenedMismatched =>
        /\ Get(project).romtype = Get(last.args[1])
        /\ Get(project).resources = EmptyDict
        /\ Get(project).moduleconfig.romtype = Get(last.args[1])
        /\ DEFAULT_MODULES # None
        /\ IsDefaultConfig(Get(project).moduleconfig, Get(DEFAULT_MODULES))

C4_Witness ==
    /\ OpenedMismatched
    /\ Get(snake).resources = Some(OldResources)
    /\ Get(snake).moduleconfig # None
    /\ Get(project).moduleconfig.enabled # <<>>
    /\ Get(project).moduleconfig.enabled # Get(Get(snake).moduleconfig).enabled

\* the manifest is one a single discovery pass reads to the end, and it names a module
WellFormedManifest == Discover(manifest).err = NoError /\ Discover(manifest).mods # <<>>

\* C5: whatever the interleaving of the callers of _get_default_modules, the
\* manifest is read at most once and all callers are returned the same sequence
\* (stated for the manifests one pass reads to the end and finds a module in).
C5_SingleFlight ==
    WellFormedManifest =>
        /\ discoveries <= 1
        /\ \A t, u \in Threads :
               (threads[t].ret # None /\ threads[u].ret # None)
                   => threads[t].ret = threads[u].ret

\* the step is a call of Project.upgrade from a version below 13
UpgradeStepBelow13 ==
    /\ last'.n = last.n + 1
    /\ last'.op = "upgrade"
    /\ last'.args[1] < 13

\* the configuration equals the one freshly derived for its rom type; a manifest
\* whose discovery raises derives none
EqualsFreshDefault(cfg) ==
    /\ Discover(manifest).err = NoError
    /\ IsDefaultConfig(cfg, Discover(manifest).mods)

\* C6: an upgrade from a version below 13 succeeds if and only if the
\* configuration equals the freshly derived default; on success the three lists
\* are as before and the version is new_version, and otherwise the call raises.
C6_UpgradeBelow13 ==
    [][UpgradeStepBelow13 =>
        LET cfg == Get(project).moduleconfig IN
        /\ (last'.err = NoError) <=> EqualsFreshDefault(cfg)
        /\ (last'.err = NoError) =>
               /\ Get(project').moduleconfig = cfg
               /\ Get(project').version = Some(last'.args[2])
        /\ (last'.err # NoError) =>
               /\ last'.err.kind \in {"AssertionError", "IndexError"}
               /\ project' = project]_vars

C6_Witness ==
    /\ last.op = "upgrade"
    /\ last.args = <<12, 14>>
    /\ last.err = NoError
    /\ Get(project).version = Some(14)
    /\ Len(Get(project).moduleconfig.enabled) = 2

\* a failed upgrade of a configuration that differs from the default only in
\* the order of its enabled names
C6_WitnessRefused ==
    /\ last.op = "upgrade"
    /\ last.args[1] < 13
    /\ last.err.kind = "AssertionError"
    /\ Get(project).moduleconfig.disabled = <<>>
    /\ Get(project).moduleconfig.project_specific = <<>>

\* the last call was Project.upgrade from version 13 or above
UpgradedFromCurrent ==
    /\ last.op = "upgrade"
    /\ last.args[1] >= 13

\* C7 as stated: an upgrade from version 13 or above fails with the
\* unsupported-upgrade error, which carries old_version and new_version.
C7_UnsupportedCarriesBoth ==
    UpgradedFromCurrent =>
        /\ last.err.kind = "NotImplementedError"
        /\ last.args[1] \in Range(last.err.args)
        /\ last.args[2] \in Range(last.err.args)

\* C7 as amended: an upgrade from version 13 or above fails with
\* NotImplementedError, whose message carries old_version alone.
C7_UnsupportedCarriesOld ==
    UpgradedFromCurrent => last.err = Error("NotImplementedError", <<last.args[1]>>)

C7_Witness ==
    /\ UpgradedFromCurrent
    /\ last.args = <<13, 14>>
    /\ last.err.kind = "NotImplementedError"
    /\ IsDefaultConfig(Get(project).moduleconfig, Discover(manifest).mods)

Registered(resources, module_name, resource_name) ==
    /\ module_name \in DOMAIN resources
    /\ resource_name \in DOMAIN resources[module_name]

\* get_resource was called twice in a row for the same module and resource
GotTwice ==
    /\ last.op = "get_resource"
    /\ last.rel.kind = "repeat"

\* C8: the second of two get_resource calls for the same pair resolves to the
\* path the first resolved to and leaves the registry, which holds the pair, as
\* the first call left it.
C8_GetResourceTwice ==
    GotTwice =>
        /\ last.ret = Get(last.rel.was).ret
        /\ Registered(Get(project).resources, last.args[1], last.args[2])
        /\ Get(project).resources = Get(Get(last.rel.was).project).resources
        /\ last.ret = Some(path_join(ProjectDir,
                                     Get(project).resources[last.args[1]][last.args[2]]))

C8_Witness ==
    /\ GotTwice
    /\ last.err = NoError
    /\ last.ret = Some(path_join(ProjectDir, "r.yml"))

\* the step is a call of delete_resource for a pair that is not registered
DeleteStepUnregistered ==
    /\ last'.n = last.n + 1
    /\ last'.op = "delete_resource"
    /\ ~Registered(Get(project).resources, last'.args[1], last'.args[2])

\* C9: delete_resource of a pair whose module or resource is not registered
\* raises the not-found error and leaves the registry and the files as they were.
C9_DeleteUnregistered ==
    [][DeleteStepUnregistered =>
        /\ last'.err.kind = "CoilSnakeError"
        /\ project' = project
        /\ disk' = disk]_vars

\* the module is registered and the resource is not
C9_Witness ==
    /\ last.op = "delete_resource"
    /\ last.err.kind = "CoilSnakeError"
    /\ last.args[1] \in DOMAIN Get(project).resources
    /\ disk # {}

\* the module is not registered
C9_WitnessNoModule ==
    /\ last.op = "delete_resource"
    /\ last.err.kind = "CoilSnakeError"
    /\ last.args[1] \notin DOMAIN Get(project).resources

\* get_resource was called right after a successful delete_resource of the pair
GotAfterDelete ==
    /\ last.op = "get_resource"
    /\ last.rel.kind = "after_delete"

\* C10: after a successful delete_resource the pair is not registered, and a
\* get_resource that follows registers resource_name + "." + extension.
C10_DeleteThenGet ==
    /\ (last.op = "delete_resource" /\ last.err = NoError) =>
           ~Registered(Get(project).resources, last.args[1], last.args[2])
    /\ GotAfterDelete =>
           /\ Registered(Get(project).resources, last.args[1], last.args[2])
           /\ Get(project).resources[last.args[1]][last.args[2]]
                  = last.args[2] \o "." \o last.args[3]
           /\ last.ret = Some(path_join(ProjectDir, last.args[2] \o "." \o last.args[3]))

\* the pair had a path of its own before the delete, and its file did not exist
C10_Witness ==
    /\ GotAfterDelete
    /\ Get(last.rel.was).ret = Some(path_join(ProjectDir, "old/r.bin"))
    /\ last.args[3] = "yml"
    /\ disk = {}


(***************************************************************************)
(* C11: creating a project                                                 *)
(***************************************************************************)

\* the step is a call of the constructor while there is no descriptor file
OpenStepWithoutFile ==
    /\ last'.n = last.n + 1
    /\ last'.op = "open"
    /\ snake = None

\* the romtype asked for names no concrete type
IsUnknownRomtype(romtype) == romtype = None \/ Get(romtype) = ROM_TYPE_NAME_UNKNOWN

\* C11: a constructor call that finds no descriptor file raises the precondition
\* error when the romtype is unspecified or "Unknown", and then makes no project
\* and no directory; with a concrete romtype it succeeds, creates the project
\* directory and yields a project with an empty resource registry and the
\* freshly derived module configuration.
C11_CreateProject ==
    [][OpenStepWithoutFile =>
        IF IsUnknownRomtype(last'.args[1])
        THEN /\ last'.err.kind = "AssertionError"
             /\ project' = project
             /\ dirs' = dirs
        ELSE /\ last'.err = NoError
             /\ ProjectDir \in dirs'
             /\ Get(project').romtype = Get(last'.args[1])
             /\ Get(project').resources = EmptyDict
             /\ DEFAULT_MODULES' # None
             /\ IsDefaultConfig(Get(project').moduleconfig, Get(DEFAULT_MODULES'))]_vars

\* the constructor made the directory and then raised out of the discovery
C11_CreatedThenRaised ==
    /\ last.op = "open"
    /\ snake = None
    /\ ~IsUnknownRomtype(last.args[1])
    /\ last.err.kind = "IndexError"
    /\ ProjectDir \in dirs
    /\ project = None

\* the constructor refused to create a project and left no directory
C11_Refused ==
    /\ last.op = "open"
    /\ last.err.kind = "AssertionError"
    /\ dirs = {}
    /\ project = None


(***************************************************************************)
(* C12: the version a save writes                                          *)
(***************************************************************************)

\* the constructor was called, with whatever romtype, right after a save of a
\* project that was itself opened from a descriptor file
OpenedAfterSaveAnyType ==
    /\ last.op = "open"
    /\ last.rel.kind = "after_save"
    /\ last.err = NoError
    /\ Get(Get(last.rel.was).project).origin # "created"

\* C12 as stated: save writes the current format version whatever the project's
\* version, and opening a descriptor, saving and opening again, with whatever
\* romtype, gives a project of the current format version.
C12_SaveWritesCurrentAnyOpen ==
    /\ last.op = "save" => Get(snake).version = Some(FORMAT_VERSION)
    /\ OpenedAfterSaveAnyType => Get(project).version = Some(FORMAT_VERSION)

\* C12: save writes the current format version whatever the project's version,
\* and a constructor call after a save, with the romtype unspecified or equal to
\* the saved project's, gives a project of the current format version.
C12_SaveWritesCurrent ==
    /\ last.op = "save" => Get(snake).version = Some(FORMAT_VERSION)
    /\ OpenedAfterSave =>
           /\ last.err = NoError
           /\ Get(project).version = Some(FORMAT_VERSION)

\* a project of another version than the current one was saved and opened again
C12_Witness ==
    /\ OpenedAfterSave
    /\ Get(Get(last.rel.was).project).version \in {Some(1), Some(12), Some(14)}
    /\ Get(project).version = Some(FORMAT_VERSION)


(***************************************************************************)
(* C13: a name in both lists                                               *)
(***************************************************************************)

\* some name is in both the enabled and the disabled list
InBothLists(cfg) == Range(cfg.enabled) \cap Range(cfg.disabled) # {}

\* C13 as stated: whether the constructor was given a stored configuration or
\* not, and whatever add_missing_defaults calls follow, no name is in both the
\* enabled and the disabled list.
C13_NeverInBoth ==
    project # None => ~InBothLists(Get(project).moduleconfig)

\* C13: a name is in both lists of a configuration only when the constructor
\* adopted a stored configuration that had it in both; deriving the defaults
\* puts no name in both, and add_missing_defaults (like every other call) puts
\* none in both when there was none.
C13_InBothOnlyAdopted ==
    [][(last'.n = last.n + 1 /\ project' # None /\ InBothLists(Get(project').moduleconfig)) =>
        IF last'.op = "open" /\ last'.err = NoError
        THEN /\ Get(project').origin = "decoded_with_config"
             /\ InBothLists(Get(Get(snake).moduleconfig))
        ELSE /\ project # None
             /\ InBothLists(Get(project).moduleconfig)]_vars

\* add_missing_defaults has appended names to a list while the other list was
\* not empty, and no name is in both
C13_Witness ==
    /\ last.op = "add_missing_defaults"
    /\ last.err = NoError
    /\ Get(last.ret) # <<>>
    /\ Get(project).moduleconfig.enabled # <<>>
    /\ Get(project).moduleconfig.disabled # <<>>
    /\ ~InBothLists(Get(project).moduleconfig)


(***************************************************************************)
(* C14: the modules of a project                                           *)
(***************************************************************************)

\* the registry entries whose name is in the enabled list and whose class is
\* compatible with the configuration's rom type, in registry order
EnabledCompatibleEntries(cfg, registry) ==
    LET Test(e) == e[1] \in Range(cfg.enabled) /\ cfg.romtype \in CompatibleRomtypes(e[2])
    IN  SelectSeq(registry, Test)

\* C14: for any configuration, adopted ones with incompatible or unknown names
\* included, load_modules returns first the registry entries whose name is
\* enabled and whose class is compatible, in registry order, and then one entry
\* per project-specific name, in the order of that list.
C14_LoadModulesOrder ==
    (last.op = "load_modules" /\ last.err = NoError) =>
        LET cfg == Get(project).moduleconfig
            builtin == EnabledCompatibleEntries(cfg, Get(DEFAULT_MODULES))
            specific == cfg.project_specific
            mods == Get(last.ret)
        IN  /\ DEFAULT_MODULES # None
            /\ Len(mods) = Len(builtin) + Len(specific)
            /\ SubSeq(mods, 1, Len(builtin)) = builtin
            /\ \A i \in 1..Len(specific) : mods[Len(builtin) + i][1] = specific[i]

\* load_modules returned a built-in and a project-specific module for a
\* configuration that has an incompatible registry name and an unknown name enabled
C14_Witness ==
    /\ last.op = "load_modules"
    /\ last.err = NoError
    /\ Get(project).romtype = "Y"
    /\ Get(project).moduleconfig.enabled = <<"B", "A", "Z">>
    /\ "B" \in Range(Names(Get(DEFAULT_MODULES)))
    /\ Names(Get(last.ret)) = <<"A", "P">>

\* load_modules returned the built-in modules in registry order, which is not the
\* order of the enabled list, and after them the two project-specific modules in
\* the order of their list
C14_WitnessOrder ==
    /\ last.op = "load_modules"
    /\ last.err = NoError
    /\ Get(project).moduleconfig.enabled = <<"B", "A">>
    /\ Get(project).moduleconfig.project_specific = <<"R", "P">>
    /\ Names(Get(last.ret)) = <<"A", "B", "R", "P">>


(***************************************************************************)
(* C15: what add_missing_defaults changes                                  *)
(***************************************************************************)

\* the step is a call of add_missing_defaults that returns
AddMissingStep ==
    /\ last'.n = last.n + 1
    /\ last'.op = "add_missing_defaults"
    /\ last'.err = NoError

\* the compatible registry names that are in neither list, in registry order
NamesInNeitherList(cfg, registry) ==
    LET Test(name) == name \notin Range(cfg.enabled) \cup Range(cfg.disabled)
    IN  SelectSeq(Names(CompatibleEntries(cfg.romtype, registry)), Test)

\* C15: add_missing_defaults(enabled) appends to the list the flag names exactly
\* the compatible registry names that are in neither list, in registry order and
\* each once, after the elements the list had; the other list and the
\* project-specific list stay as they were (so a name in the disabled list is
\* not added again).
C15_AddMissingFrame ==
    [][AddMissingStep =>
        LET cfg == Get(project).moduleconfig
            new == Get(project').moduleconfig
            added == NamesInNeitherList(cfg, Get(DEFAULT_MODULES'))
        IN  /\ DEFAULT_MODULES' # None
            /\ Get(last'.ret) = added
            /\ NoDuplicates(Get(last'.ret))
            /\ IF last'.args[1]
               THEN new.enabled = cfg.enabled \o added /\ new.disabled = cfg.disabled
               ELSE new.disabled = cfg.disabled \o added /\ new.enabled = cfg.enabled
            /\ new.project_specific = cfg.project_specific
            /\ new.romtype = cfg.romtype
            /\ Get(project').resources = Get(project).resources]_vars

\* add_missing_defaults(enabled = FALSE) on a configuration with both lists empty
\* appended the two names of the registry B, A to the disabled list, in that order
C15_Witness ==
    /\ last.op = "add_missing_defaults"
    /\ last.err = NoError
    /\ last.args = <<FALSE>>
    /\ Names(Get(DEFAULT_MODULES)) = <<"B", "A">>
    /\ Get(project).moduleconfig.enabled = <<>>
    /\ Get(project).moduleconfig.disabled = <<"B", "A">>
    /\ Get(last.ret) = <<"B", "A">>

\* add_missing_defaults(enabled = TRUE) on a configuration with both lists empty
\* appended the two names of the registry A, B to the enabled list, in that order
C15_WitnessRegistryAB ==
    /\ last.op = "add_missing_defaults"
    /\ last.err = NoError
    /\ last.args = <<TRUE>>
    /\ Names(Get(DEFAULT_MODULES)) = <<"A", "B">>
    /\ Get(project).moduleconfig.enabled = <<"A", "B">>
    /\ Get(project).moduleconfig.disabled = <<>>
    /\ Get(last.ret) = <<"A", "B">>

\* add_missing_defaults(enabled = TRUE) on a configuration that has A disabled
\* appended B to the enabled list and did not add A again
C15_WitnessDisabledKept ==
    /\ last.op = "add_missing_defaults"
    /\ last.err = NoError
    /\ last.args = <<TRUE>>
    /\ Get(project).moduleconfig.enabled = <<"B">>
    /\ Get(project).moduleconfig.disabled = <<"A">>
    /\ Get(last.ret) = <<"B">>


(***************************************************************************)
(* C16: the registry names of a derived configuration are compatible       *)
(***************************************************************************)

\* the constructor derived the project's configuration from the registry
DerivedConfig == project # None /\ Get(project).origin # "decoded_with_config"

\* C16: in a configuration the constructor derived from the registry, whatever
\* add_missing_defaults calls followed, every name of the enabled or the disabled
\* list that is a registry name is compatible with the project's rom type.
C16_DerivedNamesCompatible ==
    (DerivedConfig /\ DEFAULT_MODULES # None) =>
        LET cfg == Get(project).moduleconfig IN
        \A i \in 1..Len(Get(DEFAULT_MODULES)) :
            LET e == Get(DEFAULT_MODULES)[i] IN
            e[1] \in Range(cfg.enabled) \cup Range(cfg.disabled)
                => cfg.romtype \in CompatibleRomtypes(e[2])

\* add_missing_defaults was called on a derived configuration of a rom type that
\* a module of the registry is not compatible with
C16_Witness ==
    /\ DerivedConfig
    /\ last.op = "add_missing_defaults"
    /\ last.err = NoError
    /\ Get(project).romtype = "Y"
    /\ Names(Get(DEFAULT_MODULES)) = <<"A", "B">>
    /\ Get(project).moduleconfig.enabled = <<"A">>


(***************************************************************************)
(* C17: get_resource registers before it opens                             *)
(***************************************************************************)

\* the step is a call of get_resource for a pair that is not registered
GetStepUnregistered ==
    /\ last'.n = last.n + 1
    /\ last'.op = "get_resource"
    /\ ~Registered(Get(project).resources, last'.args[1], last'.args[2])

\* the step is a call of save
SaveStep ==
    /\ last'.n = last.n + 1
    /\ last'.op = "save"

\* the path get_resource registers for a pair that has none
DefaultPath(resource_name, extension) == resource_name \o "." \o extension

\* C17: get_resource for a pair that is not registered registers the default
\* path, in every mode, also when opening the file then fails (the entry stays),
\* and the next save writes the registry with that entry to the descriptor.
C17_RegistersBeforeOpen ==
    [][/\ GetStepUnregistered =>
              /\ Registered(Get(project').resources, last'.args[1], last'.args[2])
              /\ Get(project').resources[last'.args[1]][last'.args[2]]
                     = DefaultPath(last'.args[2], last'.args[3])
       /\ SaveStep => Get(snake').resources = Some(Get(project).resources)]_vars

\* a save wrote an entry that a get_resource call registered although it failed
\* to open the file: the entry has the default path and there is no such file
\* (a call in write mode creates the file, delete_resource removes the entry)
C17_Witness ==
    /\ last.op = "save"
    /\ Get(Get(snake).resources) = [m \in {"m"} |-> [r \in {"r"} |-> "r.yml"]]
    /\ Get(project).resources = Get(Get(snake).resources)
    /\ "proj/r.yml" \notin disk


(***************************************************************************)
(* C18: blank and comment lines of the manifest                            *)
(***************************************************************************)

\* the line is blank, or begins with the comment marker
IsBlankLine(raw) == rstrip(raw) = ""
IsCommentLine(raw) == ~IsBlankLine(raw) /\ Char0(rstrip(raw)) = "#"

\* the names of the lines that are neither blank nor comments, in manifest order
ListedNames(lines) ==
    LET Listed(raw) == ~IsBlankLine(raw) /\ ~IsCommentLine(raw)
        kept == SelectSeq(lines, Listed)
    IN  [i \in 1..Len(kept) |-> rstrip(kept[i])]

\* C18: discovery skips every blank line and every comment line and registers
\* exactly the names of the other lines, in manifest order; no call of
\* _get_default_modules raises because of a blank line.
C18_SkipsBlankAndComments ==
    \A t \in Threads :
        /\ threads[t].err = NoError
        /\ threads[t].ret # None => Names(Get(threads[t].ret)) = ListedNames(manifest)

\* a call of _get_default_modules raised IndexError on a blank line
C18_BlankLineRaised ==
    \E t \in Threads :
        /\ threads[t].err.kind = "IndexError"
        /\ \E i \in 1..Len(manifest) : IsBlankLine(manifest[i])

\* a call returned the names of a manifest that has a comment line
C18_CommentSkipped ==
    \E t \in Threads :
        /\ threads[t].ret # None
        /\ \E i \in 1..Len(manifest) : IsCommentLine(manifest[i])
        /\ Get(threads[t].ret) # <<>>


(***************************************************************************)
(* C19: the module search path                                             *)
(***************************************************************************)

\* the step is a call of load_modules on a configuration with project-specific
\* names, each of which load_project_specific_module is called for in turn
LoadSpecificStep ==
    /\ last'.n = last.n + 1
    /\ last'.op = "load_modules"
    /\ Get(project).moduleconfig.project_specific # <<>>

\* C19: resolving project-specific modules leaves sys.path as it was before the
\* call, whether the module was found, was not found, was found without the
\* class, or raised while it was imported.
C19_SearchPathRestored ==
    [][LoadSpecificStep =>
        /\ sys_path' = sys_path
        /\ CustomModulesDir \notin Range(sys_path')]_vars

\* the four ways out of load_project_specific_module, a module having been looked
\* for under the project's directory in each
C19_Witness ==
    /\ last.op = "load_modules"
    /\ last.err.kind = "ImportError"
    /\ "P" \in sys_modules

C19_WitnessFound ==
    /\ last.op = "load_modules"
    /\ last.err = NoError
    /\ Get(project).moduleconfig.project_specific = <<"P">>

C19_WitnessNotFound ==
    /\ last.op = "load_modules"
    /\ last.err = Error("ValueError", <<"Cannot locate module", "N">>)

C19_WitnessNoClass ==
    /\ last.op = "load_modules"
    /\ last.err = Error("ValueError", <<"must have a class named", "Q", "Q">>)


(***************************************************************************)
(* C20: upgrading a project of before version 13                           *)
(***************************************************************************)

\* upgrade from a version below 13 was called on a project the constructor read
\* from a descriptor without a module configuration, of the romtype asked for
UpgradedOldDescriptor ==
    /\ last.op = "upgrade"
    /\ last.args[1] < 13
    /\ Get(project).origin = "decoded_without_config"

\* C20: on a project opened from a descriptor that has no module configuration,
\* with the romtype unspecified or matching, upgrade from a version below 13
\* succeeds and sets the version to new_version, whatever calls of
\* add_missing_defaults, get_resource and delete_resource came between.
C20_OldDescriptorUpgrades ==
    UpgradedOldDescriptor =>
        /\ last.err = NoError
        /\ Get(project).version = Some(last.args[2])
        /\ Get(project).moduleconfig.disabled = <<>>
        /\ Get(project).moduleconfig.project_specific = <<>>

\* the upgrade came right after add_missing_defaults, on a project of type Y read
\* from the version 12 descriptor, whose one resource had been registered by
\* get_resource and removed by delete_resource
C20_Witness ==
    /\ UpgradedOldDescriptor
    /\ last.rel.kind = "after_add"
    /\ last.err = NoError
    /\ Get(project).romtype = "Y"
    /\ "m" \in DOMAIN Get(project).resources
    /\ "r" \notin DOMAIN Get(project).resources["m"]
    /\ Get(project).moduleconfig.enabled # <<>>

====
